---- MODULE Spec2Model ----
(***************************************************************************)
(* Facebook webhook ingestion of erxes-api (SaveWebhookResponse and its    *)
(* helpers): deliveries are folded into conversations, customers and       *)
(* conversation messages.                                                  *)
(*                                                                         *)
(* The store (Conversations, ConversationMessages, Customers,              *)
(* ActivityLogs) is the state.  A handler is an operator from a "world"    *)
(* record to a world record: the store, the instance's currentPageId, the  *)
(* number of external Graph API calls made so far, the index of the call   *)
(* that throws (failAt, 0 = none) and ok = FALSE once an exception is      *)
(* propagating.  Documents are kept in insertion order; the _id of a       *)
(* document is its index.  threw counts the deliveries whose processing    *)
(* ended with an exception; inflight holds, for each of the deliveries     *)
(* that are processed at the same time, how far it has got.                *)
(*                                                                         *)
(* Spec processes deliveries one after the other (with failing Graph API   *)
(* calls and conversations closed in the inbox); SpecReactions adds likes  *)
(* and reactions, SpecReply the answers sent with facebookReply, and       *)
(* SpecConcurrent runs two deliveries at the same time.                    *)
(*                                                                         *)
(* Fields the handlers only copy (senderName, attachments, createdTime,    *)
(* link, photo, video) are left out of the documents.  An absent field or  *)
(* array is NONE or the empty sequence.                                    *)
(***************************************************************************)
EXTENDS Integers, Sequences, FiniteSets, TLC

VARIABLES convs, msgs, custs, convLogs, custLogs, threw, inflight

vars == <<convs, msgs, custs, convLogs, custLogs, threw, inflight>>

\* ---------------------------------------------------------------- bounds
\* documents in Conversations and ConversationMessages together
MaxStore == 5
\* deliveries that end with an exception
MaxThrows == 1
\* likes (counted or discounted) and reactors recorded on the messages of
\* the store, together
MaxReactions == 3
\* comments and messages the page posts with facebookReply
MaxReplies == 2

\* ------------------------------------------------------------- constants
NONE == "none"

STATUS_NEW == "new"
STATUS_OPEN == "open"
STATUS_CLOSED == "closed"

KIND_MESSENGER == "messenger"
KIND_FEED == "feed"

FACEBOOK_POST_TYPES == {"status", "photo", "video", "link"}

ReactionTypes == {"like", "love"}

\* ------------------------------------------------- integration, accounts
\* The one facebook integration of the installation and its account.
Integrations ==
  << [hasFacebookData |-> TRUE, pageIds |-> {"pg1", "pg2"}, accountId |-> "acc1"] >>

Accounts == {"acc1"}

PageIds == Integrations[1].pageIds

\* ------------------------------------------------------ the Graph API
\* graphRequest.get(postId): the post object; its id is the stable id,
\* whatever alias of the post the webhook carried.
StableId(postId) ==
  CASE postId = "p1x" -> "p1"
    [] OTHER -> postId

ApiPost(postId) ==
  [id |-> StableId(postId), message |-> "post", from |-> "pg1",
   hasComments |-> TRUE, total_count |-> 2]

ApiComment(commentId) ==
  CASE commentId = "c1" ->
         [id |-> "c1", parent |-> NONE, from |-> "u1", message |-> "first",
          post_id |-> NONE, parent_id |-> NONE, item |-> NONE,
          comment_id |-> NONE, verb |-> NONE]
    [] OTHER ->
         [id |-> "c2", parent |-> "c1", from |-> "pg1", message |-> "reply",
          post_id |-> NONE, parent_id |-> NONE, item |-> NONE,
          comment_id |-> NONE, verb |-> NONE]

\* getComments(commentId).data: the replies to a comment
ApiChildren(commentId) ==
  IF commentId = "c1" THEN << ApiComment("c2") >> ELSE << >>

\* ------------------------------------------------------------ the world
World(f) ==
  [convs |-> convs, msgs |-> msgs, custs |-> custs,
   convLogs |-> convLogs, custLogs |-> custLogs,
   page |-> NONE, calls |-> 0, failAt |-> f, ok |-> TRUE]

\* graphRequest.get / graphRequest.post: one round trip; the failAt-th one
\* throws a transport error.
GraphCall(w) ==
  IF ~w.ok THEN w
  ELSE IF w.calls + 1 = w.failAt
       THEN [w EXCEPT !.calls = @ + 1, !.ok = FALSE]
       ELSE [w EXCEPT !.calls = @ + 1]

\* a round trip inside try/catch: its failure is swallowed
GraphCallCaught(w) ==
  IF ~w.ok THEN w ELSE [w EXCEPT !.calls = @ + 1]

Throw(w) == [w EXCEPT !.ok = FALSE]

\* text || '...'
OrDots(text) == IF text = NONE THEN "..." ELSE text

getPageAccessToken(w) == GraphCall(w)

\* ------------------------------------------------------- the db models
\* Conversations.findOne(findSelector).sort({ createdAt: -1 }) with the
\* messenger selector: kind MESSENGER and the sender/recipient pair in
\* either order.  0 when there is none.
\* mutant: the pair is matched in the order of the event only
MatchesSelector_OneOrder(c, sel) ==
  /\ c.facebookData.kind = sel.kind
  /\ c.facebookData.senderId = sel.senderId
  /\ c.facebookData.recipientId = sel.recipientId

MatchesSelector(c, sel) ==
  /\ c.facebookData.kind = sel.kind
  /\ \/ /\ c.facebookData.senderId = sel.senderId
        /\ c.facebookData.recipientId = sel.recipientId
     \/ /\ c.facebookData.senderId = sel.recipientId
        /\ c.facebookData.recipientId = sel.senderId

FindConversation(w, sel) ==
  LET hits == {i \in 1..Len(w.convs) : MatchesSelector(w.convs[i], sel)}
  IN IF hits = {} THEN 0 ELSE CHOOSE i \in hits : \A j \in hits : j <= i

\* Conversations.createConversation: a new document, no message yet
createConversation(w, doc) ==
  [w EXCEPT !.convs = Append(@, [doc EXCEPT !.messageCount = 0])]

\* Conversations.reopen: back to OPEN, nothing else changes
reopen(w, id) ==
  [w EXCEPT !.convs[id].status = STATUS_OPEN]

\* ConversationMessages.createMessage: inserts the message and counts it
\* in its conversation
Messages_createMessage(w, doc) ==
  [w EXCEPT !.msgs = Append(@, doc),
            !.convs[doc.conversationId].messageCount = @ + 1]

\* Customers.findOne({ 'facebookData.id': fbUserId }): 0 when there is none
FindCustomer(w, fbUserId) ==
  LET hits == {i \in 1..Len(w.custs) : w.custs[i] = fbUserId}
  IN IF hits = {} THEN 0 ELSE CHOOSE i \in hits : \A j \in hits : i <= j

Customers_createCustomer(w, fbUserId) ==
  [w EXCEPT !.custs = Append(@, fbUserId)]

\* mutant: no conversation log is written
createConversationLog_Nothing(w) == w

createConversationLog(w) == [w EXCEPT !.convLogs = @ + 1]

createCustomerRegistrationLog(w) == [w EXCEPT !.custLogs = @ + 1]

\* ConversationMessages.findOne({ 'facebookData.messageId': messageId })
HasMessageId(w, messageId) ==
  \E i \in 1..Len(w.msgs) : w.msgs[i].facebookData.messageId = messageId

\* ConversationMessages.findOne({ 'facebookData.commentId': commentId })
HasCommentId(w, commentId) ==
  \E i \in 1..Len(w.msgs) : w.msgs[i].facebookData.commentId = commentId

\* ... with conversationId: conversation._id
HasCommentIdIn(w, conversationId, commentId) ==
  \E i \in 1..Len(w.msgs) :
     /\ w.msgs[i].conversationId = conversationId
     /\ w.msgs[i].facebookData.commentId = commentId

\* ConversationMessages.findOne({ conversationId, 'facebookData.isPost':
\* true, 'facebookData.postId': postId })
HasParentPost(w, conversationId, postId) ==
  \E i \in 1..Len(w.msgs) :
     /\ w.msgs[i].conversationId = conversationId
     /\ w.msgs[i].facebookData.isPost
     /\ w.msgs[i].facebookData.postId = postId

\* ------------------------------------------------- message facebookData
EmptyFd ==
  [senderId |-> NONE, messageId |-> NONE, commentId |-> NONE,
   postId |-> NONE, item |-> NONE, isPost |-> FALSE, parentId |-> NONE,
   commentCount |-> 0, likeCount |-> 0,
   reactions |-> [t \in ReactionTypes |-> << >>]]

generatePostParams(postParams) ==
  [EmptyFd EXCEPT !.postId = postParams.post_id,
                  !.item = postParams.item,
                  !.isPost = TRUE]

generateCommentParams(commentParams) ==
  LET doc == [EmptyFd EXCEPT
                !.postId = commentParams.post_id,
                !.item = commentParams.item,
                !.commentId = IF commentParams.id # NONE
                              THEN commentParams.id
                              ELSE commentParams.comment_id]
      doc1 == IF commentParams.parent # NONE
              THEN [doc EXCEPT !.parentId = commentParams.parent]
              ELSE doc
  IN IF commentParams.post_id # commentParams.parent_id
     THEN [doc1 EXCEPT !.parentId = commentParams.parent_id]
     ELSE doc1

\* ------------------------------------------------------------ customers
\* mutant: the customer is not looked up first
getOrCreateCustomer_NoLookup(w, fbUserId) ==
  IF ~w.ok THEN w
  ELSE LET w1 == GraphCall(w)
           w2 == GraphCallCaught(w1)
       IN IF ~w1.ok THEN w1
          ELSE createCustomerRegistrationLog(
                 Customers_createCustomer(w2, fbUserId))

getOrCreateCustomer(w, fbUserId) ==
  IF ~w.ok THEN w
  ELSE IF FindCustomer(w, fbUserId) # 0 THEN w
  ELSE LET w1 == GraphCall(w)           \* get user info
           w2 == GraphCallCaught(w1)    \* getProfilePic
       IN IF ~w1.ok THEN w1
          ELSE createCustomerRegistrationLog(
                 Customers_createCustomer(w2, fbUserId))

\* ------------------------------------------------------------- messages
\* mutant: the conversation's content is not updated
createMessage_NoSnapshot(w, conversationId, userId, content, facebookData) ==
  IF ~w.ok THEN w
  ELSE IF conversationId = 0 THEN Throw(w)
  ELSE LET w1 == getPageAccessToken(w)
           w2 == getOrCreateCustomer(w1, userId)
       IN IF ~w2.ok THEN w2
          ELSE Messages_createMessage(w2,
                 [conversationId |-> conversationId,
                  customerId |-> FindCustomer(w2, userId),
                  content |-> content,
                  facebookData |-> facebookData])

createMessage(w, conversationId, userId, content, facebookData) ==
  IF ~w.ok THEN w
  ELSE IF conversationId = 0 THEN Throw(w)
  ELSE LET w1 == getPageAccessToken(w)
           w2 == getOrCreateCustomer(w1, userId)
           w3 == Messages_createMessage(w2,
                   [conversationId |-> conversationId,
                    customerId |-> FindCustomer(w2, userId),
                    content |-> content,
                    facebookData |-> facebookData])
       IN IF ~w2.ok THEN w2
          ELSE [w3 EXCEPT !.convs[conversationId].content = content]

RECURSIVE createMessageFromComments(_, _, _, _)
createMessageFromComments(w, conversationId, userId, comments) ==
  IF ~w.ok \/ comments = << >> THEN w
  ELSE LET comment == Head(comments)
           params == generateCommentParams([comment EXCEPT !.item = "comment"])
           w1 == IF HasCommentIdIn(w, conversationId, comment.id) THEN w
                 ELSE createMessage(w, conversationId, userId, comment.message,
                        [params EXCEPT !.senderId = comment.from])
       IN IF comment.id = NONE THEN w
          ELSE createMessageFromComments(w1, conversationId, userId,
                                         Tail(comments))

\* mutant: nothing is restored
restoreParentPost_Skipped(w, conversationId, userId, facebookData) == w

restoreParentPost(w, conversationId, userId, facebookData) ==
  IF ~w.ok THEN w
  ELSE IF facebookData.postId = NONE THEN w
  ELSE IF facebookData.item # "comment" THEN w
  ELSE IF HasParentPost(w, conversationId, facebookData.postId) THEN w
  ELSE LET w1 == getPageAccessToken(w)
           w2 == GraphCall(w1)                     \* getPostInfo
           postResponse == ApiPost(facebookData.postId)
           postParams == generatePostParams(
                           [post_id |-> postResponse.id, item |-> "status"])
           w3 == createMessage(w2, conversationId, userId,
                   OrDots(postResponse.message),
                   [postParams EXCEPT
                      !.senderId = postResponse.from,
                      !.commentCount = IF postResponse.hasComments
                                       THEN postResponse.total_count ELSE 0])
           w4 == GraphCall(w3)                     \* getCommentInfo
           commentResponse == ApiComment(facebookData.commentId)
           w5 == GraphCall(w4)                     \* getCommentInfo (parent)
           parentCommentResponse == ApiComment(commentResponse.parent)
           w6 == GraphCall(w5)                     \* getComments
           parentCommentComments == ApiChildren(parentCommentResponse.id)
       IN IF commentResponse.parent # NONE
          THEN createMessageFromComments(w6, conversationId, userId,
                 Append(parentCommentComments, parentCommentResponse))
          ELSE w4

\* -------------------------------------------------------- conversations
\* a call of getOrCreateConversation that passes no findSelector
NoSelector == [kind |-> NONE, senderId |-> NONE, recipientId |-> NONE]

\* A conversation is created when none was found, or when the one found
\* is CLOSED and has more than one message; otherwise the one found is
\* reopened.
\* mutant: a closed conversation with one message is replaced already
ShouldCreate_AtLeastOne(w, found) ==
  \/ found = 0
  \/ /\ w.convs[found].messageCount # 0
     /\ w.convs[found].messageCount >= 1
     /\ w.convs[found].status = STATUS_CLOSED

ShouldCreate(w, found) ==
  \/ found = 0
  \/ /\ w.convs[found].messageCount # 0
     /\ w.convs[found].messageCount > 1
     /\ w.convs[found].status = STATUS_CLOSED

\* params: findSelector (NoSelector when the caller passes none), status,
\* senderId, facebookData (of the conversation), content, msgFacebookData
getOrCreateConversation(w, params) ==
  IF ~w.ok THEN w
  ELSE LET found == IF params.findSelector # NoSelector
                    THEN FindConversation(w, params.findSelector)
                    ELSE 0
           create == ShouldCreate(w, found)
           \* the create branch
           c1 == getPageAccessToken(w)
           c2 == getOrCreateCustomer(c1, params.senderId)
           c3 == IF ~c2.ok THEN c2
                 ELSE IF c2.page = NONE THEN Throw(c2)
                 ELSE createConversationLog(
                        createConversation(c2,
                          [status |-> params.status,
                           content |-> params.content,
                           customerId |-> FindCustomer(c2, params.senderId),
                           messageCount |-> 0,
                           facebookData |->
                             [params.facebookData EXCEPT !.pageId = c2.page]]))
           w1 == IF create THEN c3 ELSE reopen(w, found)
           conversationId == IF create THEN Len(w1.convs) ELSE found
           w2 == restoreParentPost(w1, conversationId, params.senderId,
                                   params.msgFacebookData)
       IN createMessage(w2, conversationId, params.senderId, params.content,
                        params.msgFacebookData)

\* mutant: the conversation and the message are the recipient's
MessengerParams_OfRecipient(event) ==
  [findSelector |-> [kind |-> KIND_MESSENGER,
                     senderId |-> event.sender,
                     recipientId |-> event.recipient],
   status |-> STATUS_NEW,
   senderId |-> event.recipient,
   facebookData |-> [kind |-> KIND_MESSENGER,
                     senderId |-> event.recipient,
                     recipientId |-> event.sender,
                     postId |-> NONE, pageId |-> NONE],
   content |-> OrDots(event.message.text),
   msgFacebookData |-> [EmptyFd EXCEPT !.messageId = event.message.mid]]

MessengerParams(event) ==
  [findSelector |-> [kind |-> KIND_MESSENGER,
                     senderId |-> event.sender,
                     recipientId |-> event.recipient],
   status |-> STATUS_NEW,
   senderId |-> event.sender,
   facebookData |-> [kind |-> KIND_MESSENGER,
                     senderId |-> event.sender,
                     recipientId |-> event.recipient,
                     postId |-> NONE, pageId |-> NONE],
   content |-> OrDots(event.message.text),
   msgFacebookData |-> [EmptyFd EXCEPT !.messageId = event.message.mid]]

\* mutant: the "already saved" check is missing
getOrCreateConversationByMessenger_NoCheck(w, event) ==
  IF ~w.ok THEN w
  ELSE getOrCreateConversation(w, MessengerParams(event))

getOrCreateConversationByMessenger(w, event) ==
  IF ~w.ok THEN w
  ELSE IF HasMessageId(w, event.message.mid) THEN w
  ELSE getOrCreateConversation(w, MessengerParams(event))

\* ------------------------------------------------------------ reactions
MatchesReactionSelector(m, selector) ==
  /\ selector.postId # NONE => m.facebookData.postId = selector.postId
  /\ selector.commentId # NONE => m.facebookData.commentId = selector.commentId

\* mutant: the count is +1 whatever the verb
updateLikeCount_AlwaysAdd(w, type, selector) ==
  [w EXCEPT !.msgs =
     [i \in 1..Len(w.msgs) |->
        IF MatchesReactionSelector(w.msgs[i], selector)
        THEN [w.msgs[i] EXCEPT !.facebookData.likeCount = @ + 1]
        ELSE w.msgs[i]]]

updateLikeCount(w, type, selector) ==
  LET count == IF type = "add" THEN 1 ELSE -1
  IN [w EXCEPT !.msgs =
        [i \in 1..Len(w.msgs) |->
           IF MatchesReactionSelector(w.msgs[i], selector)
           THEN [w.msgs[i] EXCEPT !.facebookData.likeCount = @ + count]
           ELSE w.msgs[i]]]

RemoveId(list, id) == SelectSeq(list, LAMBDA x : x # id)

updateReactions(w, type, selector, reactionType, from) ==
  [w EXCEPT !.msgs =
     [i \in 1..Len(w.msgs) |->
        IF MatchesReactionSelector(w.msgs[i], selector)
        THEN [w.msgs[i] EXCEPT !.facebookData.reactions[reactionType] =
                IF type = "add" THEN Append(@, from) ELSE RemoveId(@, from)]
        ELSE w.msgs[i]]]

\* let selector = {}; post_id sets the postId selector; comment_id, looked
\* at after it, replaces the selector by the commentId selector
\* mutant: a post_id keeps the postId selector
ReactionSelector_PostFirst(reactionParams) ==
  IF reactionParams.post_id # NONE
  THEN [postId |-> reactionParams.post_id, commentId |-> NONE]
  ELSE [postId |-> NONE, commentId |-> reactionParams.comment_id]

ReactionSelector(reactionParams) ==
  LET s0 == [postId |-> NONE, commentId |-> NONE]
      s1 == IF reactionParams.post_id # NONE
            THEN [postId |-> reactionParams.post_id, commentId |-> NONE]
            ELSE s0
  IN IF reactionParams.comment_id # NONE
     THEN [postId |-> NONE, commentId |-> reactionParams.comment_id]
     ELSE s1

\* reaction_type || 'like'
ReactionTypeOf(reactionParams) ==
  IF reactionParams.reaction_type # NONE
  THEN reactionParams.reaction_type ELSE "like"

handleReactions(w, reactionParams) ==
  LET selector == ReactionSelector(reactionParams)
      w1 == IF reactionParams.item = "like"
            THEN updateLikeCount(w, reactionParams.verb, selector)
            ELSE w
  IN IF reactionParams.item = "reaction"
     THEN updateReactions(w1, reactionParams.verb, selector,
            ReactionTypeOf(reactionParams), reactionParams.from)
     ELSE w1

\* ----------------------------------------------------------------- feed
\* if we are posting from our page, close it automatically
\* mutant: the page's own posts are not closed
FeedStatus_AlwaysNew(senderId) == STATUS_NEW

FeedStatus(senderId) ==
  IF senderId \in PageIds THEN STATUS_CLOSED ELSE STATUS_NEW

\* getOrCreateConversationByFeed after its checks: a like or reaction goes
\* to handleReactions, a post or comment becomes a message of a
\* conversation found or created for it
feedConversation(w, value) ==
  IF ~w.ok THEN w
  ELSE IF value.item \in {"like", "reaction"} THEN handleReactions(w, value)
  ELSE LET isComment == value.item = "comment" /\ value.comment_id # NONE
           msgFacebookData ==
             IF value.item \in FACEBOOK_POST_TYPES THEN generatePostParams(value)
             ELSE IF isComment THEN generateCommentParams(value)
             ELSE EmptyFd
           senderId == value.from
           w1 == getPageAccessToken(w)
           w2 == GraphCall(w1)                   \* get post object
           postId == ApiPost(value.post_id).id
           status == FeedStatus(senderId)
       IN getOrCreateConversation(w2,
            [findSelector |-> NoSelector,
             status |-> status,
             senderId |-> senderId,
             facebookData |-> [kind |-> KIND_FEED, senderId |-> senderId,
                               recipientId |-> NONE, postId |-> postId,
                               pageId |-> NONE],
             content |-> OrDots(value.message),
             msgFacebookData |-> [msgFacebookData EXCEPT !.senderId = senderId]])

\* a stored comment is found by its id before anything is created
CommentSaved(w, value) ==
  /\ value.item = "comment"
  /\ value.comment_id # NONE
  /\ HasCommentId(w, value.comment_id)

\* mutant: the verb of the change is not looked at
getOrCreateConversationByFeed_AnyVerb(w, value) ==
  IF ~w.ok THEN w
  ELSE IF ~Integrations[1].hasFacebookData THEN Throw(w)
  ELSE IF CommentSaved(w, value) THEN w
  ELSE feedConversation(w, value)

getOrCreateConversationByFeed(w, value) ==
  IF ~w.ok THEN w
  ELSE IF ~Integrations[1].hasFacebookData THEN Throw(w)
  ELSE IF value.verb # "add" THEN w
  ELSE IF CommentSaved(w, value) THEN w
  ELSE feedConversation(w, value)

\* -------------------------------------------------------------- replies
\* graphRequest.post: the id of the n-th comment or message the page posts
ApiReplyId(n) ==
  CASE n = 1 -> "r1"
    [] n = 2 -> "r2"
    [] OTHER -> "r3"

\* the comments and messages posted by facebookReply so far
Posted(w) ==
  Cardinality({i \in 1..Len(w.msgs) :
                 \/ w.msgs[i].facebookData.commentId \in {"r1", "r2", "r3"}
                 \/ w.msgs[i].facebookData.messageId \in {"r1", "r2", "r3"}})

\* the message an operator writes in the inbox, stored before it is sent
addMessage(w, conversationId, text) ==
  Messages_createMessage(w,
    [conversationId |-> conversationId, customerId |-> 0,
     content |-> text, facebookData |-> EmptyFd])

\* updateMany({ 'facebookData.isPost': true, conversationId }, { $inc })
\* mutant: the posts of every conversation are counted up
incCommentCount_AllPosts(w, conversationId) ==
  [w EXCEPT !.msgs =
     [i \in 1..Len(w.msgs) |->
        IF w.msgs[i].facebookData.isPost
        THEN [w.msgs[i] EXCEPT !.facebookData.commentCount = @ + 1]
        ELSE w.msgs[i]]]

incCommentCount(w, conversationId) ==
  [w EXCEPT !.msgs =
     [i \in 1..Len(w.msgs) |->
        IF /\ w.msgs[i].facebookData.isPost
           /\ w.msgs[i].conversationId = conversationId
        THEN [w.msgs[i] EXCEPT !.facebookData.commentCount = @ + 1]
        ELSE w.msgs[i]]]

\* msg: commentId (NONE when the reply goes to the post) and text; message
\* is the _id of the stored message that is being sent
facebookReply(w, conversationId, msg, message) ==
  IF ~w.ok THEN w
  ELSE IF ~Integrations[1].hasFacebookData THEN Throw(w)
  ELSE IF Integrations[1].accountId \notin Accounts THEN Throw(w)
  ELSE LET conversation == w.convs[conversationId]
           w1 == GraphCall(w)                    \* page access token
           w2 == GraphCall(w1)                   \* post me/messages, id/comments
           res == ApiReplyId(Posted(w) + 1)
           facebookData ==
             IF msg.commentId # NONE
             THEN [EmptyFd EXCEPT !.commentId = res, !.parentId = msg.commentId]
             ELSE [EmptyFd EXCEPT !.commentId = res]
       IN IF ~w2.ok THEN w2
          ELSE IF conversation.facebookData.kind = KIND_MESSENGER
          THEN [w2 EXCEPT !.msgs[message].facebookData.messageId = res]
          ELSE IF conversation.facebookData.kind = KIND_FEED
          THEN incCommentCount(
                 [w2 EXCEPT !.msgs[message].facebookData = facebookData],
                 w2.msgs[message].conversationId)
          ELSE w2

\* ------------------------------------------------------------- dispatch
\* if (messagingEvent.message): an event without a message object (a
\* delivery or read receipt) is written with mid NONE
HasMessage(messagingEvent) == messagingEvent.message.mid # NONE

RECURSIVE viaMessengerEvent(_, _)
viaMessengerEvent(w, messaging) ==
  IF ~w.ok \/ messaging = << >> THEN w
  ELSE viaMessengerEvent(
         IF HasMessage(Head(messaging))
         THEN getOrCreateConversationByMessenger(w, Head(messaging))
         ELSE w,
         Tail(messaging))

RECURSIVE viaFeedEvent(_, _)
viaFeedEvent(w, changes) ==
  IF ~w.ok \/ changes = << >> THEN w
  ELSE viaFeedEvent(getOrCreateConversationByFeed(w, Head(changes)),
                    Tail(changes))

\* the for loop of start() over data.entry
RECURSIVE startEntries(_, _)
startEntries(w, entries) ==
  IF ~w.ok \/ entries = << >> THEN w
  ELSE LET entry == Head(entries)
           w1 == [w EXCEPT !.page = entry.id]
           w2 == viaMessengerEvent(w1, entry.messaging)
           w3 == viaFeedEvent(w2, entry.changes)
       IN IF entry.id \notin PageIds THEN w       \* return null
          ELSE startEntries(w3, Tail(entries))

start(w, d) ==
  IF ~w.ok THEN w
  ELSE IF ~Integrations[1].hasFacebookData THEN Throw(w)
  ELSE IF d.object = "page" THEN startEntries(w, d.entry)
  ELSE w

RECURSIVE receiveWebhookResponse(_, _, _)
receiveWebhookResponse(w, d, integrations) ==
  IF ~w.ok \/ integrations = << >> THEN w
  ELSE LET integration == Head(integrations)
       IN IF ~integration.hasFacebookData THEN Throw(w)
          ELSE IF integration.accountId \notin Accounts THEN Throw(w)
          ELSE receiveWebhookResponse(start([w EXCEPT !.page = NONE], d),
                                      d, Tail(integrations))

\* ------------------------------------------------------------- payloads
TextOf(mid) ==
  CASE mid = "m1" -> "hi"
    [] mid = "m2" -> "yo"
    [] mid = "m3" -> NONE
    [] OTHER -> "hey"

MessagingEvent(sender, recipient, mid) ==
  [sender |-> sender, recipient |-> recipient,
   message |-> [mid |-> mid, text |-> TextOf(mid)]]

FeedValue(item, verb, post_id, comment_id, parent_id, from, message) ==
  [item |-> item, verb |-> verb, post_id |-> post_id,
   comment_id |-> comment_id, parent_id |-> parent_id, from |-> from,
   message |-> message, id |-> NONE, parent |-> NONE,
   reaction_type |-> NONE]

Entry(id, messaging, changes) ==
  [id |-> id, messaging |-> messaging, changes |-> changes]

\* u1 writes to page pg1 (m1, m3), the page answers (m2: the pair swapped),
\* u2 writes to page pg2 (m4)
MessengerEntries ==
  {Entry("pg1", <<MessagingEvent("u1", "pg1", "m1")>>, << >>),
   Entry("pg1", <<MessagingEvent("pg1", "u1", "m2")>>, << >>),
   Entry("pg1", <<MessagingEvent("u1", "pg1", "m3")>>, << >>),
   Entry("pg2", <<MessagingEvent("u2", "pg2", "m4")>>, << >>)}

\* the post p1 of page pg1 (the webhook names it by its stable id or by the
\* alias p1x), u1's comment c1 on it and the page's reply c2 to c1; the
\* removal of c1, of a like on the post and the change of a reaction on c1
FeedValues ==
  {FeedValue("comment", "add", "p1x", "c1", "p1x", "u1", "first"),
   FeedValue("comment", "add", "p1", "c2", "c1", "pg1", "reply"),
   FeedValue("status", "add", "p1x", NONE, NONE, "pg1", "post"),
   FeedValue("comment", "remove", "p1x", "c1", "p1x", "u1", "first"),
   FeedValue("like", "remove", "p1x", NONE, NONE, "u2", NONE),
   [FeedValue("reaction", "edit", "p1x", "c1", NONE, "u2", NONE)
      EXCEPT !.reaction_type = "love"]}

FeedEntries == {Entry("pg1", << >>, <<v>>) : v \in FeedValues}

\* no event, a read receipt (no message object), a messenger event and a
\* feed event in one entry
OtherEntries ==
  {Entry("pg1", << >>, << >>),
   Entry("pg1", <<MessagingEvent("u1", "pg1", NONE)>>, << >>),
   Entry("pg1", <<MessagingEvent("u1", "pg1", "m3")>>,
                <<FeedValue("status", "add", "p1x", NONE, NONE, "pg1", "post")>>)}

SingleEntries == MessengerEntries \cup FeedEntries \cup OtherEntries

\* the entries that deliveries of two entries are made of: one of a page of
\* another integration (pg9) and three of the owned pages
PairEntries ==
  {Entry("pg9", <<MessagingEvent("u1", "pg9", "m9")>>, << >>),
   Entry("pg1", <<MessagingEvent("u1", "pg1", "m1")>>, << >>),
   Entry("pg2", <<MessagingEvent("u2", "pg2", "m4")>>, << >>),
   Entry("pg1", << >>,
         <<FeedValue("comment", "add", "p1x", "c1", "p1x", "u1", "first")>>)}

Delivery(object, entry) == [object |-> object, entry |-> entry]

Deliveries ==
  {Delivery("page", <<e>>) : e \in SingleEntries}
    \cup {Delivery("page", <<p[1], p[2]>>) :
            p \in {q \in PairEntries \X PairEntries : q[1].id # q[2].id}}
    \cup {Delivery("user", <<Entry("pg1", << >>, << >>)>>)}

\* ---------------------------------------------------------------- state
\* deliveries are handled by one process each; two of them can be under
\* way at the same time
Workers == {1, 2}

Idle == [pc |-> "idle", entry |-> Entry(NONE, << >>, << >>)]

Init ==
  /\ convs = << >>
  /\ msgs = << >>
  /\ custs = << >>
  /\ convLogs = 0
  /\ custLogs = 0
  /\ threw = 0
  /\ inflight = [p \in Workers |-> Idle]

InBounds(w) == Len(w.msgs) + Len(w.convs) <= MaxStore

\* One webhook delivery, processed from start to end.  failAt = 0: every
\* Graph API call succeeds; failAt = k: the k-th call of the delivery
\* throws and the exception leaves receiveWebhookResponse.
Receive(d, failAt) ==
  LET w == receiveWebhookResponse(World(failAt), d, Integrations)
  IN /\ failAt = 0 \/ ~w.ok
     /\ InBounds(w)
     /\ convs' = w.convs
     /\ msgs' = w.msgs
     /\ custs' = w.custs
     /\ convLogs' = w.convLogs
     /\ custLogs' = w.custLogs
     /\ threw' = IF w.ok THEN threw ELSE threw + 1
     /\ UNCHANGED inflight

\* the number of Graph API calls the delivery makes when none of them fails
CallsOf(d) == receiveWebhookResponse(World(0), d, Integrations).calls

ReceiveWebhook ==
  \E d \in Deliveries :
    \E failAt \in 0..(IF threw < MaxThrows THEN CallsOf(d) ELSE 0) :
      Receive(d, failAt)

\* An operator of the inbox closes a conversation.  Only messenger
\* conversations are closed here: the status of a conversation is read
\* only after a findSelector found it, and only the messenger path passes
\* one.
CloseConversation ==
  \E i \in 1..Len(convs) :
    /\ convs[i].facebookData.kind = KIND_MESSENGER
    /\ convs[i].status # STATUS_CLOSED
    /\ convs' = [convs EXCEPT ![i].status = STATUS_CLOSED]
    /\ UNCHANGED <<msgs, custs, convLogs, custLogs, threw, inflight>>

Next == ReceiveWebhook \/ CloseConversation

Spec == Init /\ [][Next]_vars

\* ------------------------------------------- specification: reactions
\* Likes and reactions on the post p1 and on its comment c1.  The webhook
\* delivers them as feed changes; handleReactions is also a public method
\* of SaveWebhookResponse and is called with either verb.
ReactionValue(item, verb, post_id, comment_id, from, reaction_type) ==
  [FeedValue(item, verb, post_id, comment_id, NONE, from, NONE)
     EXCEPT !.reaction_type = reaction_type]

\* a like on the post (post_id only), a like on the comment c1 (the event
\* names the post and the comment), a love reaction of u1 or u2 on the
\* post, a reaction of u1 without reaction_type and a like that names
\* neither a post nor a comment
ReactionParams ==
  {ReactionValue("like", verb, "p1x", NONE, "u2", NONE) :
     verb \in {"add", "remove"}}
    \cup {ReactionValue("like", verb, "p1x", "c1", "u2", NONE) :
            verb \in {"add", "remove"}}
    \cup {ReactionValue("reaction", verb, "p1x", NONE, from, "love") :
            verb \in {"add", "remove"}, from \in {"u1", "u2"}}
    \cup {ReactionValue("reaction", verb, "p1x", NONE, "u1", NONE) :
            verb \in {"add", "remove"}}
    \cup {ReactionValue("like", verb, NONE, NONE, "u2", NONE) :
            verb \in {"add", "remove"}}

\* the feed changes of this specification: u1's comment c1 on the post,
\* the post itself and the reaction events
ReactionFeedEntries ==
  {Entry("pg1", << >>, <<v>>) :
     v \in {FeedValue("comment", "add", "p1x", "c1", "p1x", "u1", "first"),
            FeedValue("status", "add", "p1x", NONE, NONE, "pg1", "post")}
             \cup ReactionParams}

Abs(n) == IF n < 0 THEN -n ELSE n

\* the likes and reactors recorded on one message
ReactionsOn(m) ==
  Abs(m.facebookData.likeCount)
    + Len(m.facebookData.reactions["like"])
    + Len(m.facebookData.reactions["love"])

RECURSIVE ReactionsIn(_)
ReactionsIn(messages) ==
  IF messages = << >> THEN 0
  ELSE ReactionsOn(Head(messages)) + ReactionsIn(Tail(messages))

ReactionsInBounds(w) == ReactionsIn(w.msgs) <= MaxReactions

\* one delivery with one feed change, no Graph API call fails
ReceiveFeed ==
  \E e \in ReactionFeedEntries :
    /\ ReactionsInBounds(
         receiveWebhookResponse(World(0), Delivery("page", <<e>>), Integrations))
    /\ Receive(Delivery("page", <<e>>), 0)

\* a call of handleReactions
HandleReactions ==
  \E reactionParams \in ReactionParams :
    LET w == handleReactions(World(0), reactionParams)
    IN /\ ReactionsInBounds(w)
       /\ msgs' = w.msgs
       /\ UNCHANGED <<convs, custs, convLogs, custLogs, threw, inflight>>

NextReactions == ReceiveFeed \/ HandleReactions

SpecReactions == Init /\ [][NextReactions]_vars

\* ------------------------------------- specification: concurrent deliveries
\* Two deliveries are processed at the same time.  Each await of a handler
\* is a point where the other delivery can run; of these the model keeps
\* one: between the findOne that looks for the event's id and the rest of
\* the handler.  No lock spans the two.
\* documents in Conversations and ConversationMessages together, here
MaxInflightStore == 9

\* deliveries of one entry with one event: the messenger message m1, the
\* page's answer m2 and the comment c1
ConcurrentEntries ==
  {Entry("pg1", <<MessagingEvent("u1", "pg1", "m1")>>, << >>),
   Entry("pg1", <<MessagingEvent("pg1", "u1", "m2")>>, << >>),
   Entry("pg1", << >>,
         <<FeedValue("comment", "add", "p1x", "c1", "p1x", "u1", "first")>>)}

\* the findOne of the event's messageId / commentId
Saved(w, entry) ==
  IF entry.messaging # << >>
  THEN HasMessageId(w, entry.messaging[1].message.mid)
  ELSE CommentSaved(w, entry.changes[1])

\* mutant: the insert looks for the id once more and does nothing when it
\* is stored
insertEntry_IfAbsent(w, entry) ==
  IF Saved(w, entry) THEN w
  ELSE IF entry.messaging # << >>
  THEN getOrCreateConversation(w, MessengerParams(entry.messaging[1]))
  ELSE feedConversation(w, entry.changes[1])

\* the handler after the check
insertEntry(w, entry) ==
  IF entry.messaging # << >>
  THEN getOrCreateConversation(w, MessengerParams(entry.messaging[1]))
  ELSE feedConversation(w, entry.changes[1])

\* a delivery arrives and start() reaches the handler of its event
Arrive(p) ==
  /\ inflight[p].pc = "idle"
  /\ \E entry \in ConcurrentEntries :
       inflight' = [inflight EXCEPT ![p] = [pc |-> "check", entry |-> entry]]
  /\ UNCHANGED <<convs, msgs, custs, convLogs, custLogs, threw>>

\* the handler looks for a stored message with the event's id and returns
\* when there is one
CheckSaved(p) ==
  /\ inflight[p].pc = "check"
  /\ inflight' = [inflight EXCEPT ![p] =
                    IF Saved(World(0), inflight[p].entry) THEN Idle
                    ELSE [@ EXCEPT !.pc = "insert"]]
  /\ UNCHANGED <<convs, msgs, custs, convLogs, custLogs, threw>>

\* the rest of the handler: conversation, customer, backfill and message
Insert(p) ==
  /\ inflight[p].pc = "insert"
  /\ LET entry == inflight[p].entry
         w == insertEntry([World(0) EXCEPT !.page = entry.id], entry)
     IN /\ Len(w.msgs) + Len(w.convs) <= MaxInflightStore
        /\ convs' = w.convs
        /\ msgs' = w.msgs
        /\ custs' = w.custs
        /\ convLogs' = w.convLogs
        /\ custLogs' = w.custLogs
  /\ inflight' = [inflight EXCEPT ![p] = Idle]
  /\ UNCHANGED threw

NextConcurrent == \E p \in Workers : Arrive(p) \/ CheckSaved(p) \/ Insert(p)

SpecConcurrent == Init /\ [][NextConcurrent]_vars

\* --------------------------------------------- specification: replies
\* An operator answers in the inbox: the answer is stored as a message of
\* the conversation and facebookReply sends it, to the post of a feed
\* conversation, to one of its comments, or to the messenger thread.
ReplyEntries ==
  {Entry("pg1", <<MessagingEvent("u1", "pg1", "m1")>>, << >>),
   Entry("pg1", << >>,
         <<FeedValue("comment", "add", "p1x", "c1", "p1x", "u1", "first")>>),
   Entry("pg1", << >>,
         <<FeedValue("status", "add", "p1x", NONE, NONE, "pg1", "post")>>)}

ReceiveEntry ==
  \E entry \in ReplyEntries : Receive(Delivery("page", <<entry>>), 0)

\* the comments of a conversation that can be answered
CommentIdsOf(w, conversationId) ==
  {w.msgs[i].facebookData.commentId : i \in
     {j \in 1..Len(w.msgs) :
        /\ w.msgs[j].conversationId = conversationId
        /\ w.msgs[j].facebookData.item = "comment"}}

\* the answer is stored and then sent
sendReply(w, conversationId, commentId) ==
  LET w1 == addMessage(w, conversationId, "answer")
  IN facebookReply(w1, conversationId,
                   [commentId |-> commentId, text |-> "answer"], Len(w1.msgs))

Reply ==
  \E conversationId \in 1..Len(convs) :
    \E commentId \in {NONE} \cup CommentIdsOf(World(0), conversationId) :
      \E failAt \in 0..(IF threw < MaxThrows THEN 2 ELSE 0) :
        LET w == sendReply(World(failAt), conversationId, commentId)
        IN /\ Posted(World(0)) < MaxReplies
           /\ failAt = 0 \/ ~w.ok
           /\ commentId # NONE =>
                convs[conversationId].facebookData.kind = KIND_FEED
           /\ convs' = w.convs
           /\ msgs' = w.msgs
           /\ threw' = IF w.ok THEN threw ELSE threw + 1
           /\ UNCHANGED <<custs, convLogs, custLogs, inflight>>

NextReply == ReceiveEntry \/ Reply

SpecReply == Init /\ [][NextReply]_vars

\* =============================================================== claims
DeliveryOf(e) == Delivery("page", <<e>>)

\* the world a delivery leaves when it is processed in the current state
\* and no Graph API call fails / the failAt-th call fails
After(d) == receiveWebhookResponse(World(0), d, Integrations)

AfterFailing(d, failAt) == receiveWebhookResponse(World(failAt), d, Integrations)

SameStore(w) ==
  /\ w.convs = convs
  /\ w.msgs = msgs
  /\ w.custs = custs
  /\ w.convLogs = convLogs
  /\ w.custLogs = custLogs

MsgsWithMessageId(mid) ==
  {i \in 1..Len(msgs) : msgs[i].facebookData.messageId = mid}

MsgsWithCommentId(commentId) ==
  {i \in 1..Len(msgs) : msgs[i].facebookData.commentId = commentId}

\* C1: once a messenger event with message id m has been processed, the
\* store holds exactly one message with facebookData.messageId = m, and
\* delivering an event with that mid again is skipped: it returns normally
\* and changes nothing.
C1_MessengerIdempotent ==
  \A e \in MessengerEntries :
    LET mid == e.messaging[1].message.mid
        w == After(DeliveryOf(e))
    IN MsgsWithMessageId(mid) # {} =>
         /\ Cardinality(MsgsWithMessageId(mid)) = 1
         /\ w.ok
         /\ SameStore(w)

\* C1 witness: two messenger events have been processed and redelivering
\* either of them leaves the store as it is
C1_Witness ==
  /\ MsgsWithMessageId("m1") # {}
  /\ MsgsWithMessageId("m2") # {}
  /\ SameStore(After(DeliveryOf(
       Entry("pg1", <<MessagingEvent("u1", "pg1", "m1")>>, << >>))))

\* C2: once a comment-add event has been processed, the store holds exactly
\* one message for that comment, and delivering the event again is skipped
\* without raising: no message and no conversation is added.
C2_CommentIdempotent ==
  \A e \in FeedEntries :
    LET value == e.changes[1]
        w == After(DeliveryOf(e))
    IN (/\ value.item = "comment"
        /\ value.verb = "add"
        /\ MsgsWithCommentId(value.comment_id) # {}) =>
         /\ Cardinality(MsgsWithCommentId(value.comment_id)) = 1
         /\ w.ok
         /\ SameStore(w)

\* C3: no two persisted messages carry the same facebookData.commentId.
C3_CommentIdUnique ==
  \A i, j \in 1..Len(msgs) :
    (/\ i # j
     /\ msgs[i].facebookData.commentId # NONE) =>
      msgs[i].facebookData.commentId # msgs[j].facebookData.commentId

ConvOfMid(mid) ==
  msgs[CHOOSE i \in MsgsWithMessageId(mid) : TRUE].conversationId

ClosedWithMany(c) ==
  c.status = STATUS_CLOSED /\ c.messageCount > 1

\* C4: when a messenger event A->B is stored in a conversation that is not
\* CLOSED with more than one message, an event B->A with another mid is
\* attached to that same conversation and no conversation is created.
C4_SwappedSameConversation ==
  \A e1, e2 \in MessengerEntries :
    LET a == e1.messaging[1]
        b == e2.messaging[1]
        w == After(DeliveryOf(e2))
        n == Len(msgs)
    IN (/\ a.sender = b.recipient
        /\ a.recipient = b.sender
        /\ a.message.mid # b.message.mid
        /\ MsgsWithMessageId(a.message.mid) # {}
        /\ MsgsWithMessageId(b.message.mid) = {}
        /\ ~ClosedWithMany(convs[ConvOfMid(a.message.mid)])) =>
         /\ w.ok
         /\ Len(w.convs) = Len(convs)
         /\ Len(w.msgs) = n + 1
         /\ w.msgs[n + 1].facebookData.messageId = b.message.mid
         /\ w.msgs[n + 1].conversationId = ConvOfMid(a.message.mid)

\* C4 witness: m1 (u1 -> pg1) and m2 (pg1 -> u1) are stored in one
\* conversation, each under its sender's customer
C4_Witness ==
  /\ MsgsWithMessageId("m1") # {}
  /\ MsgsWithMessageId("m2") # {}
  /\ ConvOfMid("m1") = ConvOfMid("m2")
  /\ \E i \in MsgsWithMessageId("m1") : custs[msgs[i].customerId] = "u1"
  /\ \E i \in MsgsWithMessageId("m2") : custs[msgs[i].customerId] = "pg1"

\* C5: a new messenger event that matches a conversation reopens it when
\* it is CLOSED with exactly one message (same id, no conversation created,
\* message count 2, earlier messages intact), creates a new conversation
\* and attaches the message there when it is CLOSED with two or more
\* messages, and never replaces a matched conversation that is not CLOSED.
C5_ReopenThreshold ==
  \A e \in MessengerEntries :
    LET event == e.messaging[1]
        found == FindConversation(World(0), MessengerParams(event).findSelector)
        w == After(DeliveryOf(e))
        n == Len(msgs)
        k == Len(convs)
    IN (MsgsWithMessageId(event.message.mid) = {} /\ found # 0) =>
         /\ w.ok
         /\ Len(w.msgs) = n + 1
         /\ SubSeq(w.msgs, 1, n) = msgs
         /\ (convs[found].status = STATUS_CLOSED
               /\ convs[found].messageCount = 1) =>
              /\ Len(w.convs) = k
              /\ w.msgs[n + 1].conversationId = found
              /\ w.convs[found].messageCount = 2
              /\ w.convs[found].status # STATUS_CLOSED
         /\ (convs[found].status = STATUS_CLOSED
               /\ convs[found].messageCount >= 2) =>
              /\ Len(w.convs) = k + 1
              /\ w.msgs[n + 1].conversationId = k + 1
              /\ w.convs[found] = convs[found]
         /\ convs[found].status # STATUS_CLOSED =>
              /\ Len(w.convs) = k
              /\ w.msgs[n + 1].conversationId = found

\* C5 witness: the first conversation was reopened to two messages and
\* closed again, and the next event of the pair went to a second one
C5_Witness ==
  /\ Len(convs) = 2
  /\ convs[1].facebookData.kind = KIND_MESSENGER
  /\ convs[1].status = STATUS_CLOSED
  /\ convs[1].messageCount = 2
  /\ MatchesSelector(convs[2], convs[1].facebookData)
  /\ convs[2].messageCount = 1

\* C6: a comment-add event on a post that already has a FEED conversation
\* (same stable post id, same page) which is not CLOSED with more than one
\* message is attached to that conversation, and there is at most one FEED
\* conversation per (postId, pageId) that is not CLOSED.
C6_FeedSameConversation ==
  /\ \A e \in FeedEntries : \A c \in 1..Len(convs) :
       LET value == e.changes[1]
           w == After(DeliveryOf(e))
       IN (/\ value.item = "comment"
           /\ value.verb = "add"
           /\ MsgsWithCommentId(value.comment_id) = {}
           /\ convs[c].facebookData.kind = KIND_FEED
           /\ convs[c].facebookData.postId = StableId(value.post_id)
           /\ convs[c].facebookData.pageId = e.id
           /\ ~ClosedWithMany(convs[c])) =>
            /\ Len(w.convs) = Len(convs)
            /\ w.msgs[Len(w.msgs)].conversationId = c
  /\ \A c, d \in 1..Len(convs) :
       (/\ c # d
        /\ convs[c].facebookData.kind = KIND_FEED
        /\ convs[d].facebookData.kind = KIND_FEED
        /\ convs[c].facebookData.postId = convs[d].facebookData.postId
        /\ convs[c].facebookData.pageId = convs[d].facebookData.pageId) =>
         (convs[c].status = STATUS_CLOSED \/ convs[d].status = STATUS_CLOSED)

\* C7: a feed post or comment event with verb add creates a conversation
\* whose status is CLOSED when the sender is one of the integration's page
\* ids and NEW otherwise.
C7_FeedStatus ==
  \A e \in FeedEntries : \A failAt \in 0..CallsOf(DeliveryOf(e)) :
    LET value == e.changes[1]
        w == AfterFailing(DeliveryOf(e), failAt)
        k == Len(convs)
    IN (/\ value.verb = "add"
        /\ value.item \in FACEBOOK_POST_TYPES \cup {"comment"}
        /\ MsgsWithCommentId(value.comment_id) = {}) =>
         /\ failAt = 0 => (w.ok /\ Len(w.convs) = k + 1)
         /\ Len(w.convs) > k =>
              /\ w.convs[k + 1].facebookData.kind = KIND_FEED
              /\ w.convs[k + 1].status =
                   IF value.from \in {"pg1", "pg2"}
                   THEN STATUS_CLOSED ELSE STATUS_NEW

\* C7 witness: a feed conversation of the page's own post is CLOSED and one
\* of a visitor's comment is NEW
C7_Witness ==
  \E c, d \in 1..Len(convs) :
    /\ convs[c].facebookData.kind = KIND_FEED
    /\ convs[c].facebookData.senderId = "pg1"
    /\ convs[c].status = STATUS_CLOSED
    /\ convs[d].facebookData.kind = KIND_FEED
    /\ convs[d].facebookData.senderId = "u1"
    /\ convs[d].status = STATUS_NEW

SameResult(w1, w2) ==
  /\ w1.ok = w2.ok
  /\ w1.convs = w2.convs
  /\ w1.msgs = w2.msgs
  /\ w1.custs = w2.custs
  /\ w1.convLogs = w2.convLogs
  /\ w1.custLogs = w2.custLogs

Owned(e) == e.id \in {"pg1", "pg2"}

\* C8: an entry of a page the integration does not own is skipped as a
\* whole, and the owned entries of the delivery are processed whether they
\* come before or after it: the delivery has the effect of the delivery
\* without its foreign entries.
C8_ForeignEntrySkipped ==
  \A d \in Deliveries :
    SameResult(After(d), After(Delivery(d.object, SelectSeq(d.entry, Owned))))

\* an entry has been ingested when its messages and added comments are stored
Ingested(w, e) ==
  /\ \A i \in 1..Len(e.messaging) :
       HasMessage(e.messaging[i]) => HasMessageId(w, e.messaging[i].message.mid)
  /\ \A i \in 1..Len(e.changes) :
       (e.changes[i].verb = "add" /\ e.changes[i].item = "comment") =>
         HasCommentId(w, e.changes[i].comment_id)

\* C9: when a Graph API call fails while the first entry of a delivery is
\* processed, the owned entry of another page that follows it is still
\* ingested.
C9_FailureIsolated ==
  \A d \in Deliveries :
    (/\ Len(d.entry) = 2
     /\ Owned(d.entry[1])
     /\ Owned(d.entry[2])
     /\ d.entry[1].id # d.entry[2].id) =>
      \A failAt \in 1..CallsOf(DeliveryOf(d.entry[1])) :
        LET w == AfterFailing(d, failAt)
        IN ~w.ok => Ingested(w, d.entry[2])

\* C10: restoreParentPost called twice for a stored comment message (its
\* conversation, the post id and comment id of its facebookData) creates
\* no message the second time.
C10_RestoreTwice ==
  \A i \in 1..Len(msgs) :
    LET m == msgs[i]
        w0 == [World(0) EXCEPT
                 !.page = convs[m.conversationId].facebookData.pageId]
        w1 == restoreParentPost(w0, m.conversationId,
                                m.facebookData.senderId, m.facebookData)
        w2 == restoreParentPost(w1, m.conversationId,
                                m.facebookData.senderId, m.facebookData)
    IN (m.facebookData.item = "comment" /\ m.facebookData.postId # NONE) =>
         w2.msgs = w1.msgs

MatchedBy(reactionParams) ==
  {i \in 1..Len(msgs) :
     MatchesReactionSelector(msgs[i], ReactionSelector(reactionParams))}

\* the store after handleReactions(add) and then handleReactions(remove)
\* of the same event
RoundTrip(reactionParams) ==
  handleReactions(
    handleReactions(World(0), [reactionParams EXCEPT !.verb = "add"]),
    [reactionParams EXCEPT !.verb = "remove"])

\* C11: a like added and then removed with the same selector leaves the
\* likeCount of every message as it was before the add; a reaction of type
\* T added and then removed by the same actor leaves that actor absent from
\* reactions[T] of every matching message, and the list empty when it was
\* empty before; messages the selector does not match are not touched.
C11_ReactionRoundTrip ==
  \A reactionParams \in ReactionParams :
    LET w == RoundTrip(reactionParams)
        T == ReactionTypeOf(reactionParams)
    IN /\ Len(w.msgs) = Len(msgs)
       /\ \A i \in 1..Len(msgs) :
            /\ i \notin MatchedBy(reactionParams) => w.msgs[i] = msgs[i]
            /\ reactionParams.item = "like" => w.msgs[i] = msgs[i]
            /\ (reactionParams.item = "reaction"
                  /\ i \in MatchedBy(reactionParams)) =>
                 LET list == w.msgs[i].facebookData.reactions[T]
                 IN /\ \A k \in 1..Len(list) : list[k] # reactionParams.from
                    /\ msgs[i].facebookData.reactions[T] = << >> =>
                         list = << >>
                    /\ w.msgs[i].facebookData.likeCount =
                         msgs[i].facebookData.likeCount

\* C11 witness: a like and a love reaction of u2 have been added to the
\* post's message, and removing them returns it to no like and no reactor
C11_Witness ==
  \E i \in 1..Len(msgs) :
    /\ msgs[i].facebookData.isPost
    /\ msgs[i].facebookData.likeCount = 1
    /\ msgs[i].facebookData.reactions["love"] = <<"u2">>
    /\ LET w == handleReactions(
                  handleReactions(World(0),
                    ReactionValue("like", "remove", "p1x", NONE, "u2", NONE)),
                  ReactionValue("reaction", "remove", "p1x", NONE, "u2", "love"))
       IN /\ w.msgs[i].facebookData.likeCount = 0
          /\ w.msgs[i].facebookData.reactions["love"] = << >>

\* the world a feed change leaves when the webhook delivers it to page pg1
AfterChange(value) == After(DeliveryOf(Entry("pg1", << >>, <<value>>)))

\* C12: a like or reaction event that carries a post_id and no comment_id
\* changes the message of that post only: every stored comment message
\* keeps its like count and its reactor lists.
C12_PostLikeSparesComments ==
  \A reactionParams \in ReactionParams :
    (/\ reactionParams.verb = "add"
     /\ reactionParams.post_id # NONE
     /\ reactionParams.comment_id = NONE) =>
      \A i \in 1..Len(msgs) :
        msgs[i].facebookData.commentId # NONE =>
          AfterChange(reactionParams).msgs[i] = msgs[i]

\* the feed changes of the model with another verb than add
NonAddValues ==
  {[value EXCEPT !.verb = verb] :
     value \in FeedValues \cup ReactionParams,
     verb \in {"edited", "remove", "hide"}}

\* C13: a feed change whose verb is not add, whatever its item, is
\* ignored: the delivery returns normally, the store (conversations,
\* customers, messages with their like counts and reactor lists, logs) is
\* as before, and no Graph API call is made, so that no call can fail.
C13_NonAddIgnored ==
  \A value \in NonAddValues :
    LET d == DeliveryOf(Entry("pg1", << >>, <<value>>))
        w == After(d)
    IN /\ w.ok
       /\ w.calls = 0
       /\ SameStore(w)
       /\ AfterFailing(d, 1).ok

\* C13 witness: the post is stored under the id p1x, the comment c1 is not
\* stored, and the removal of a like on p1x and the removal of c1 leave the
\* store as it is
C13_Witness ==
  /\ \E i \in 1..Len(msgs) :
       msgs[i].facebookData.isPost /\ msgs[i].facebookData.postId = "p1x"
  /\ MsgsWithCommentId("c1") = {}
  /\ SameStore(AfterChange(FeedValue("like", "remove", "p1x", NONE, NONE, "u2", NONE)))
  /\ SameStore(AfterChange(
       FeedValue("comment", "remove", "p1x", "c1", "p1x", "u1", "first")))

\* the messages that carry the id of the entry's event
MsgsOfEntry(messages, entry) ==
  {i \in 1..Len(messages) :
     IF entry.messaging # << >>
     THEN messages[i].facebookData.messageId = entry.messaging[1].message.mid
     ELSE messages[i].facebookData.commentId = entry.changes[1].comment_id}

\* C14: with two deliveries under way at the same time, a delivery that
\* found no message with its event's id inserts its message when it goes
\* on, whatever the other delivery stored in between: the not-found check
\* and the insert are a read followed by a write, not one step.  (Two
\* deliveries of the same id can so both pass the check and both insert.)
C14_InsertAfterCheck ==
  [][\A p \in Workers :
       (inflight[p].pc = "insert" /\ inflight'[p].pc = "idle") =>
         Cardinality(MsgsOfEntry(msgs', inflight[p].entry)) =
           Cardinality(MsgsOfEntry(msgs, inflight[p].entry)) + 1]_vars

\* C14 witness: two messages carry the messageId m1 and two messages carry
\* the commentId c1
C14_Witness ==
  /\ Cardinality(MsgsWithMessageId("m1")) = 2
  /\ Cardinality(MsgsWithCommentId("c1")) = 2

\* the platform ids of the users and pages that send events
PlatformUserIds == {"u1", "u2", "pg1", "pg2"}

\* C15: in every state reached by deliveries processed one after the
\* other, no two customers have the same platform user id and every
\* customer has its registration log; getOrCreateCustomer of a user who
\* has a customer returns without any Graph API call and changes nothing,
\* and of a user who has none adds exactly one customer and one log (or
\* nothing, when fetching the user fails).
C15_OneCustomerPerUser ==
  /\ \A i, j \in 1..Len(custs) : i # j => custs[i] # custs[j]
  /\ custLogs = Len(custs)
  /\ \A fbUserId \in PlatformUserIds : \A failAt \in 0..2 :
       LET w == getOrCreateCustomer(World(failAt), fbUserId)
       IN IF FindCustomer(World(0), fbUserId) # 0
          THEN w.ok /\ w.calls = 0 /\ SameStore(w)
          ELSE /\ w.convs = convs /\ w.msgs = msgs /\ w.convLogs = convLogs
               /\ w.ok => /\ w.custs = Append(custs, fbUserId)
                          /\ w.custLogs = custLogs + 1
                          /\ w.calls = 2
               /\ ~w.ok => w.custs = custs /\ w.custLogs = custLogs

\* C15 witness: u1 and the page pg1 have one customer each, u1's customer
\* has two messages, and a further getOrCreateCustomer of u1 returns it
C15_Witness ==
  /\ \E i, j \in 1..Len(custs) : custs[i] = "u1" /\ custs[j] = "pg1"
  /\ \E m, n \in 1..Len(msgs) :
       /\ m # n
       /\ msgs[m].customerId = msgs[n].customerId
       /\ custs[msgs[m].customerId] = "u1"
  /\ getOrCreateCustomer(World(0), "u1").calls = 0

\* C16: in the empty store, a delivery of one entry of an owned page with
\* one messenger event (mid m, sender s, text t) leaves exactly one
\* conversation (NEW, MESSENGER, senderId s, pageId the entry's id),
\* exactly one customer, of platform id s, and exactly one message, with
\* content t and messageId m, of that conversation and that customer.
C16_FirstMessengerEvent ==
  (convs = << >> /\ msgs = << >> /\ custs = << >>) =>
    \A e \in MessengerEntries :
      LET event == e.messaging[1]
          w == After(DeliveryOf(e))
      IN /\ w.ok
         /\ Len(w.convs) = 1
         /\ w.convs[1].status = STATUS_NEW
         /\ w.convs[1].facebookData.kind = KIND_MESSENGER
         /\ w.convs[1].facebookData.senderId = event.sender
         /\ w.convs[1].facebookData.pageId = e.id
         /\ w.convs[1].customerId = 1
         /\ w.custs = <<event.sender>>
         /\ Len(w.msgs) = 1
         /\ w.msgs[1].facebookData.messageId = event.message.mid
         /\ event.message.text # NONE => w.msgs[1].content = event.message.text
         /\ w.msgs[1].conversationId = 1
         /\ w.msgs[1].customerId = 1

\* C16 witness: the store after the delivery of m1 (u1 to pg1, "hi") to
\* the empty store
C16_Witness ==
  /\ Len(convs) = 1 /\ Len(custs) = 1 /\ Len(msgs) = 1
  /\ convs[1].status = STATUS_NEW
  /\ convs[1].facebookData.kind = KIND_MESSENGER
  /\ convs[1].facebookData.senderId = "u1"
  /\ convs[1].facebookData.pageId = "pg1"
  /\ custs[1] = "u1"
  /\ msgs[1].content = "hi"
  /\ msgs[1].facebookData.messageId = "m1"
  /\ msgs[1].conversationId = 1
  /\ msgs[1].customerId = 1

PostsOf(conversationId) ==
  {i \in 1..Len(msgs) :
     msgs[i].conversationId = conversationId /\ msgs[i].facebookData.isPost}

\* C17: a facebookReply that succeeds on a FEED conversation adds 1 to the
\* commentCount of the post message of that conversation (there is at most
\* one) and leaves every other stored message as it is, those of other
\* conversations included; the message being sent, and no other, gets the
\* returned comment id and, when the reply goes to a comment, that
\* comment's id as parentId.
C17_ReplyCountsOnPost ==
  \A conversationId \in 1..Len(convs) :
    \A commentId \in {NONE} \cup CommentIdsOf(World(0), conversationId) :
      LET w == sendReply(World(0), conversationId, commentId)
          n == Len(msgs)
      IN convs[conversationId].facebookData.kind = KIND_FEED =>
           /\ w.ok
           /\ Cardinality(PostsOf(conversationId)) <= 1
           /\ Len(w.msgs) = n + 1
           /\ w.msgs[n + 1].facebookData.commentId = ApiReplyId(Posted(World(0)) + 1)
           /\ w.msgs[n + 1].facebookData.parentId = commentId
           /\ w.msgs[n + 1].conversationId = conversationId
           /\ \A i \in 1..n :
                w.msgs[i] =
                  IF i \in PostsOf(conversationId)
                  THEN [msgs[i] EXCEPT !.facebookData.commentCount = @ + 1]
                  ELSE msgs[i]

\* C17 witness: the answer r1 to the comment c1 is stored with parentId
\* c1, the post of its conversation counts the two comments the Graph API
\* reported and the answer, and the post of another conversation still
\* counts none
C17_Witness ==
  \E i, j, k \in 1..Len(msgs) :
    /\ msgs[i].facebookData.commentId = "r1"
    /\ msgs[i].facebookData.parentId = "c1"
    /\ msgs[j].conversationId = msgs[i].conversationId
    /\ msgs[j].facebookData.isPost
    /\ msgs[j].facebookData.commentCount = 3
    /\ msgs[k].conversationId # msgs[i].conversationId
    /\ msgs[k].facebookData.isPost
    /\ msgs[k].facebookData.commentCount = 0

\* what a message stands for in the order of a backfill
KeyOf(m) == IF m.facebookData.isPost THEN "post" ELSE m.facebookData.commentId

KeysOf(messages) == [k \in 1..Len(messages) |-> KeyOf(messages[k])]

\* the order in which the comment event is to be stored: the post, the
\* replies to the comment's parent, the parent, the comment itself
BackfillOrder(value) ==
  LET parent == ApiComment(value.comment_id).parent
      children == ApiChildren(parent)
  IN IF parent = NONE THEN <<"post", value.comment_id>>
     ELSE <<"post">> \o [k \in 1..Len(children) |-> children[k].id]
            \o <<parent, value.comment_id>>

IsPrefix(s, t) == Len(s) <= Len(t) /\ s = SubSeq(t, 1, Len(s))

\* C18: a comment event that is not stored yet puts its messages into one
\* conversation in this order: the post, then the replies to the parent of
\* the comment, then the parent, then the comment of the event; when a
\* Graph API call fails on the way, what has been stored is a beginning of
\* that order.  Hence every stored comment message has a post message
\* before it in its conversation.
C18_BackfillOrder ==
  /\ \A i \in 1..Len(msgs) :
       msgs[i].facebookData.item = "comment" =>
         \E j \in 1..(i - 1) :
           /\ msgs[j].conversationId = msgs[i].conversationId
           /\ msgs[j].facebookData.isPost
  /\ \A e \in FeedEntries : \A failAt \in 0..CallsOf(DeliveryOf(e)) :
       LET value == e.changes[1]
           w == AfterFailing(DeliveryOf(e), failAt)
           n == Len(msgs)
           new == SubSeq(w.msgs, n + 1, Len(w.msgs))
       IN (/\ value.item = "comment"
           /\ value.verb = "add"
           /\ MsgsWithCommentId(value.comment_id) = {}) =>
            /\ IsPrefix(KeysOf(new), BackfillOrder(value))
            /\ failAt = 0 => KeysOf(new) = BackfillOrder(value)
            /\ \A k \in 1..Len(new) : new[k].conversationId = Len(w.convs)
            /\ new # << >> => Len(w.convs) = Len(convs) + 1

\* C18 witness: a conversation holds, one after the other, the post, the
\* reply c2 and its parent c1 as backfilled, and the comment c2 of the
\* event
C18_Witness ==
  \E i \in 1..Len(msgs) :
    /\ i + 3 <= Len(msgs)
    /\ KeysOf(SubSeq(msgs, i, i + 3)) = <<"post", "c2", "c1", "c2">>
    /\ \A k \in i..(i + 3) : msgs[k].conversationId = msgs[i].conversationId
    /\ msgs[i + 1].facebookData.postId = NONE
    /\ msgs[i + 3].facebookData.postId = "p1"

\* the like events of the model that carry a post_id and a comment_id
BothIds ==
  {reactionParams \in ReactionParams :
     reactionParams.post_id # NONE /\ reactionParams.comment_id # NONE}

\* the messages a call of handleReactions changes
ChangedBy(reactionParams) ==
  {i \in 1..Len(msgs) :
     handleReactions(World(0), reactionParams).msgs[i] # msgs[i]}

\* C19 as stated: a like event that carries a post_id and a comment_id
\* updates the messages whose facebookData.postId is the event's post_id.
C19_PostIdSelectorWins ==
  \A reactionParams \in BothIds :
    ChangedBy(reactionParams) =
      {i \in 1..Len(msgs) :
         msgs[i].facebookData.postId = reactionParams.post_id}

\* C19: a like event that carries a post_id and a comment_id updates the
\* messages whose facebookData.commentId is the event's comment_id, and no
\* other: the comment_id is looked at last and replaces the selector.
C19_CommentIdSelectorWins ==
  \A reactionParams \in BothIds :
    ChangedBy(reactionParams) =
      {i \in 1..Len(msgs) :
         msgs[i].facebookData.commentId = reactionParams.comment_id}

\* C19 witness: a post and the comment c1 are stored under the post id
\* p1x, the like on c1 has been counted on the comment and not on the
\* post, and one more such like changes the comment alone
C19_Witness ==
  \E i, j \in 1..Len(msgs) :
    /\ msgs[i].facebookData.isPost
    /\ msgs[i].facebookData.postId = "p1x"
    /\ msgs[i].facebookData.likeCount = 0
    /\ msgs[j].facebookData.commentId = "c1"
    /\ msgs[j].facebookData.postId = "p1x"
    /\ msgs[j].facebookData.likeCount = 1
    /\ i \notin ChangedBy(ReactionValue("like", "add", "p1x", "c1", "u2", NONE))
    /\ j \in ChangedBy(ReactionValue("like", "add", "p1x", "c1", "u2", NONE))

MsgsIn(w, conversationId) ==
  {i \in 1..Len(w.msgs) : w.msgs[i].conversationId = conversationId}

\* the content snapshot of every conversation that has messages is the
\* content of the message stored last in it
SnapshotIsLast(w) ==
  \A c \in 1..Len(w.convs) :
    MsgsIn(w, c) # {} =>
      w.convs[c].content =
        w.msgs[CHOOSE i \in MsgsIn(w, c) : \A j \in MsgsIn(w, c) : j <= i].content

\* C21: after every delivery processed to its end, one after the other,
\* the content of each conversation that has messages is the content of
\* the message stored last in it; a comment event that restores the post
\* and the parent comment leaves the text of its own comment.
C21_ContentSnapshot ==
  /\ SnapshotIsLast(World(0))
  /\ \A e \in FeedEntries :
       LET value == e.changes[1]
           w == After(DeliveryOf(e))
       IN (/\ value.item = "comment"
           /\ value.verb = "add"
           /\ MsgsWithCommentId(value.comment_id) = {}) =>
            /\ w.ok
            /\ w.convs[Len(w.convs)].content = value.message
            /\ w.msgs[Len(w.msgs)].conversationId = Len(w.convs)

\* C21 witness: the conversation of the comment c2 holds the post ("post"),
\* the parent c1 ("first") and c2, and its content is c2's text
C21_Witness ==
  \E c \in 1..Len(convs) : \E i, j \in MsgsIn(World(0), c) :
    /\ msgs[i].content = "post"
    /\ msgs[j].content = "first"
    /\ convs[c].content = "reply"
    /\ SnapshotIsLast(World(0))

\* the post messages stored under a post id
PostMsgs(postId) ==
  {i \in 1..Len(msgs) :
     msgs[i].facebookData.isPost /\ msgs[i].facebookData.postId = postId}

\* C22: once a post-add event has been processed, the store holds exactly
\* one post message for its post id, and delivering the event again adds
\* no message and no conversation.
C22_PostAddOnce ==
  \A e \in FeedEntries :
    LET value == e.changes[1]
        w == After(DeliveryOf(e))
    IN (/\ value.item \in FACEBOOK_POST_TYPES
        /\ value.verb = "add"
        /\ PostMsgs(value.post_id) # {}) =>
         /\ Cardinality(PostMsgs(value.post_id)) = 1
         /\ Len(w.msgs) = Len(msgs)
         /\ Len(w.convs) = Len(convs)

\* C23: in every message and for every reaction type, each actor is listed
\* at most once in reactions[reactionType], whatever reaction events were
\* processed (an add replayed by the same actor included).
C23_ReactorsAreSet ==
  \A i \in 1..Len(msgs) : \A t \in ReactionTypes :
    LET list == msgs[i].facebookData.reactions[t]
    IN \A k, l \in 1..Len(list) : k # l => list[k] # list[l]

\* the messages that carry an id of the event
NamedBy(reactionParams) ==
  {i \in 1..Len(msgs) :
     \/ /\ reactionParams.post_id # NONE
        /\ msgs[i].facebookData.postId = reactionParams.post_id
     \/ /\ reactionParams.comment_id # NONE
        /\ msgs[i].facebookData.commentId = reactionParams.comment_id}

\* C24: a like or reaction event changes only messages whose postId or
\* commentId is the id the event carries; an event that carries neither a
\* post_id nor a comment_id changes no message.
C24_OnlyNamedMessages ==
  \A reactionParams \in ReactionParams :
    reactionParams.verb = "add" =>
      \A i \in 1..Len(msgs) :
        AfterChange(reactionParams).msgs[i] # msgs[i] =>
          i \in NamedBy(reactionParams)

====
